---- MODULE Spec2Model ----
(***************************************************************************)
(* A model of the path-addressed parameter store of src/gravity.py         *)
(* (class Database): the path matcher, the schema checks, the query        *)
(* operations and get/update/insert/delete/reset with their two locks.     *)
(*                                                                         *)
(* A Python string is a sequence of symbols.  A symbol is one character    *)
(* (".", "*", a digit) or a run of characters that the program only ever   *)
(* handles as a whole (a name such as "Device", the placeholder "{i}",     *)
(* the suffix "NumberOfEntries", the marker prefix "__").  A regular       *)
(* expression is a sequence of symbols too, with the escaped dot "\\.",    *)
(* the class "[0-9]+", the any-character "." and the quantifier "*".       *)
(***************************************************************************)
EXTENDS Integers, Sequences, FiniteSets, TLC

Digits == {"0", "1", "2", "3", "4", "5", "6", "7", "8", "9"}

\* the bracketed segments "{...}" that occur in the paths of the model
Brackets == {"{i}", "{x}"}

Last(s) == s[Len(s)]

EndsWithDot(s) == Len(s) > 0 /\ Last(s) = "."

---------------------------------------------------------------------------
(* re.sub on symbol strings                                                *)

RECURSIVE DigitRunEnd(_, _)
\* the index of the last symbol of the longest digit run of s that starts
\* at i (i - 1 when s[i] is no digit): what [0-9]+ consumes
DigitRunEnd(s, i) ==
    IF i <= Len(s) /\ s[i] \in Digits THEN DigitRunEnd(s, i + 1) ELSE i - 1

RECURSIVE SubInstNum(_, _, _)
\* re.sub(r'\.[0-9]+\.', repl, s), scanning from position i: matches do not
\* overlap, the scan goes on after the dot that closes a match
SubInstNum(s, i, repl) ==
    IF i > Len(s) THEN <<>>
    ELSE LET e == DigitRunEnd(s, i + 1) IN
         IF s[i] = "." /\ e >= i + 1 /\ e + 1 <= Len(s) /\ s[e + 1] = "."
         THEN repl \o SubInstNum(s, e + 2, repl)
         ELSE <<s[i]>> \o SubInstNum(s, i + 1, repl)

RECURSIVE SubWildcard(_, _, _)
\* re.sub(r'\.\*\.', repl, s), scanning from position i
SubWildcard(s, i, repl) ==
    IF i > Len(s) THEN <<>>
    ELSE IF s[i] = "." /\ i + 2 <= Len(s) /\ s[i + 1] = "*" /\ s[i + 2] = "."
         THEN repl \o SubWildcard(s, i + 3, repl)
         ELSE <<s[i]>> \o SubWildcard(s, i + 1, repl)

\* re.sub(r'\.', r'\.', s): every dot becomes an escaped dot
EscapeDots(s) == [k \in 1..Len(s) |-> IF s[k] = "." THEN "\\." ELSE s[k]]

\* re.sub(r'\{(.+?)\}', '{i}', s): every bracketed segment becomes {i}
SubBrackets(s) == [k \in 1..Len(s) |-> IF s[k] \in Brackets THEN "{i}" ELSE s[k]]

\* re.sub(r'NumberOfEntries', '.', s)
SubNumberOfEntries(s) ==
    [k \in 1..Len(s) |-> IF s[k] = "NumberOfEntries" THEN "." ELSE s[k]]

---------------------------------------------------------------------------
(* re.fullmatch                                                            *)

\* one regex atom against one symbol of the subject
AtomMatch(a, c) ==
    IF a = "." THEN TRUE
    ELSE IF a = "\\." THEN c = "."
    ELSE a = c

RECURSIVE FullMatch(_, _)
\* re.fullmatch(r, s) is not None
FullMatch(r, s) ==
    IF r = <<>> THEN s = <<>>
    ELSE IF r[1] = "^" THEN FullMatch(Tail(r), s)
    ELSE IF Len(r) >= 2 /\ r[2] = "*"
         THEN \/ FullMatch(SubSeq(r, 3, Len(r)), s)
              \/ s # <<>> /\ AtomMatch(r[1], s[1]) /\ FullMatch(r, Tail(s))
    ELSE IF r[1] = "[0-9]+"
         THEN /\ s # <<>>
              /\ s[1] \in Digits
              /\ (FullMatch(Tail(r), Tail(s)) \/ FullMatch(r, Tail(s)))
    ELSE s # <<>> /\ AtomMatch(r[1], s[1]) /\ FullMatch(Tail(r), Tail(s))

---------------------------------------------------------------------------
(* str.split(".") and the path helpers                                     *)

RECURSIVE SplitFrom(_, _, _)
SplitFrom(s, i, cur) ==
    IF i > Len(s) THEN <<cur>>
    ELSE IF s[i] = "." THEN <<cur>> \o SplitFrom(s, i + 1, <<>>)
    ELSE SplitFrom(s, i + 1, Append(cur, s[i]))

\* s.split("."): the segments of s, the last one empty when s ends in "."
Split(s) == SplitFrom(s, 1, <<>>)

RECURSIVE build_path_from_parts(_, _)
\* utils.PathHelper.build_path_from_parts(parts, n): the first n parts, each
\* followed by "."
build_path_from_parts(parts, n) ==
    IF n = 0 THEN <<>>
    ELSE build_path_from_parts(parts, n - 1) \o parts[n] \o <<".">>

\* Database._db_regex(path, partial_path)
_db_regex(path, partial) ==
    LET r1 == SubWildcard(<<"^">> \o path, 1, <<".", "[0-9]+", ".">>)
        r2 == EscapeDots(r1)
    IN  IF partial THEN r2 \o <<".", "*">> ELSE r2

\* Database._dm_regex(path, partial_path)
_dm_regex(path, partial) ==
    LET r1 == SubInstNum(<<"^">> \o path, 1, <<".", "{i}", ".">>)
        r2 == SubWildcard(r1, 1, <<".", "{i}", ".">>)
        r3 == EscapeDots(r2)
    IN  IF partial THEN r3 \o <<".", "*">> ELSE r3

\* Database._generic_dm_path(path)
_generic_dm_path(path) ==
    SubWildcard(SubInstNum(path, 1, <<".", "{i}", ".">>), 1, <<".", "{i}", ".">>)

\* _is_meta_parameter that finds no meta parameter
_is_meta_parameter_never(path_parts, n) == FALSE

\* Database._is_meta_parameter(path_parts, partial_path_part_len); Python
\* indexes from 0
_is_meta_parameter(path_parts, n) ==
    LET seg == path_parts[n + 1] IN
    Len(seg) > 0 /\ seg[1] = "__" /\ Last(seg) = "__"

---------------------------------------------------------------------------
(* Values and results.  A stored value is a JSON integer or a JSON string; *)
(* every value is a record of the same shape so that any two compare.      *)

IntV(n) == [s |-> "", n |-> n, t |-> "int"]
StrV(s) == [s |-> s, n |-> 0, t |-> "str"]
NoneV == [s |-> "", n |-> 0, t |-> "none"]

UPTIME == StrV("__UPTIME__")
IPADDR == StrV("__IPADDR__")
CURR_TIME == StrV("__CURR_TIME__")
NUM_ENTRIES == StrV("__NUM_ENTRIES__")
Markers == {UPTIME, IPADDR, CURR_TIME, NUM_ENTRIES}

\* the empty dict
EmptyMap == <<>>

\* what a call gives back: kind "ok" with the returned value (val), dict
\* (obj) or list of paths (keys), or the kind of the exception it raises
Ok(v) == [kind |-> "ok", val |-> v, obj |-> EmptyMap, keys |-> {}]
OkObj(o) == [kind |-> "ok", val |-> NoneV, obj |-> o, keys |-> {}]
OkKeys(k) == [kind |-> "ok", val |-> NoneV, obj |-> EmptyMap, keys |-> k]
Raise(e) == [kind |-> e, val |-> NoneV, obj |-> EmptyMap, keys |-> {}]
NoSuchPath == Raise("NoSuchPathError")

\* d[path] = value, and del d[path], on a dict
DictSet(d, path, value) ==
    [k \in (DOMAIN d) \cup {path} |-> IF k = path THEN value ELSE d[k]]
DictDel(d, path) == [k \in (DOMAIN d) \ {path} |-> d[k]]

---------------------------------------------------------------------------
(* The query operations: d is self._db, m is self._dm                      *)

\* Database.find_params(path)
find_params(d, m, path) ==
    LET dm_regex_str == _dm_regex(path, EndsWithDot(path))
        db_regex_str == _db_regex(path, EndsWithDot(path))
        is_implemented_path == \E dm_key \in DOMAIN m : FullMatch(dm_regex_str, dm_key)
    IN  IF is_implemented_path
        THEN OkKeys({param_path \in DOMAIN d :
                        /\ FullMatch(db_regex_str, param_path)
                        /\ LET path_parts == Split(param_path)
                           IN  ~ _is_meta_parameter(path_parts, Len(path_parts) - 1)})
        ELSE NoSuchPath

\* Database.is_param_writable(param_path): "true", "false" or the exception
is_param_writable(m, param_path) ==
    LET dm_param_path == _generic_dm_path(param_path) IN
    IF dm_param_path \in DOMAIN m
    THEN (IF m[dm_param_path] = "readWrite" THEN "true" ELSE "false")
    ELSE "NoSuchPathError"

\* Database.find_instances(partial_path).  dm_key_parts[n] and path_parts[n]
\* raise IndexError on a matching key with no more than n parts.  The loop
\* over the schema stops at the first table key, so a short key raises only
\* when it is met first; no schema of the model holds both kinds of key
find_instances(d, m, partial_path) ==
    IF ~EndsWithDot(partial_path) THEN NoSuchPath
    ELSE
    LET dm_regex_str == _dm_regex(partial_path, TRUE)
        db_regex_str == _db_regex(partial_path, TRUE)
        partial_path_part_len == Len(Split(partial_path)) - 1
        dm_matching == { dm_key \in DOMAIN m : FullMatch(dm_regex_str, dm_key) }
        db_matching == { path \in DOMAIN d : FullMatch(db_regex_str, path) }
        is_implemented_path ==
            \E dm_key \in dm_matching :
                /\ Len(Split(dm_key)) > partial_path_part_len
                /\ Split(dm_key)[partial_path_part_len + 1] = <<"{i}">>
    IN  IF is_implemented_path
        THEN IF \E path \in db_matching : Len(Split(path)) <= partial_path_part_len
             THEN Raise("IndexError")
             ELSE OkKeys({ build_path_from_parts(Split(path), partial_path_part_len)
                             \o Split(path)[partial_path_part_len + 1] \o <<".">> :
                           path \in { q \in db_matching :
                                        ~ _is_meta_parameter(Split(q), partial_path_part_len) } })
        ELSE IF \E dm_key \in dm_matching : Len(Split(dm_key)) <= partial_path_part_len
             THEN Raise("IndexError")
             ELSE NoSuchPath

\* find_objects with one more segment in found_key, as find_instances builds it
find_objects_next_level(d, m, partial_path) ==
    IF ~EndsWithDot(partial_path) THEN NoSuchPath
    ELSE
    LET dm_regex_str == _dm_regex(partial_path, TRUE)
        db_regex_str == _db_regex(partial_path, TRUE)
        partial_path_part_len == Len(Split(partial_path)) - 1
        is_implemented_path == \E dm_key \in DOMAIN m : FullMatch(dm_regex_str, dm_key)
        db_matching == { path \in DOMAIN d : FullMatch(db_regex_str, path) }
    IN  IF is_implemented_path
        THEN IF \E path \in db_matching : Len(Split(path)) <= partial_path_part_len
             THEN Raise("IndexError")
             ELSE OkKeys({ build_path_from_parts(Split(path), partial_path_part_len)
                             \o Split(path)[partial_path_part_len + 1] \o <<".">> :
                           path \in db_matching })
        ELSE NoSuchPath

\* Database.find_objects(partial_path).  build_path_from_parts indexes the
\* first n parts of the key: IndexError on a matching key with fewer
find_objects(d, m, partial_path) ==
    IF ~EndsWithDot(partial_path) THEN NoSuchPath
    ELSE
    LET dm_regex_str == _dm_regex(partial_path, TRUE)
        db_regex_str == _db_regex(partial_path, TRUE)
        partial_path_part_len == Len(Split(partial_path)) - 1
        is_implemented_path == \E dm_key \in DOMAIN m : FullMatch(dm_regex_str, dm_key)
        db_matching == { path \in DOMAIN d : FullMatch(db_regex_str, path) }
    IN  IF is_implemented_path
        THEN IF \E path \in db_matching : Len(Split(path)) < partial_path_part_len
             THEN Raise("IndexError")
             ELSE OkKeys({ build_path_from_parts(Split(path), partial_path_part_len) :
                           path \in db_matching })
        ELSE NoSuchPath

\* the key find_impl_objects emits for one matching schema key, {} for none
impl_found_key(dm_key, partial_path_part_len, next_level) ==
    LET key_parts == Split(dm_key)
        key_parts_len == Len(key_parts)
    IN  IF next_level
        THEN IF key_parts_len > partial_path_part_len + 1
             THEN { build_path_from_parts(key_parts, partial_path_part_len)
                      \o key_parts[partial_path_part_len + 1] \o <<".">> }
             ELSE {}
        ELSE { build_path_from_parts(key_parts, key_parts_len - 1) }

\* find_impl_objects without the test found_key == generic_partial_path
find_impl_objects_keeps_input(m, partial_path, next_level) ==
    IF ~EndsWithDot(partial_path) THEN NoSuchPath
    ELSE
    LET dm_regex_str == _dm_regex(partial_path, TRUE)
        partial_path_part_len == Len(Split(partial_path)) - 1
        matching == { dm_key \in DOMAIN m : FullMatch(dm_regex_str, dm_key) }
    IN  IF matching = {} THEN NoSuchPath
        ELSE OkKeys(UNION { impl_found_key(dm_key, partial_path_part_len, next_level) :
                              dm_key \in matching })

\* Database.find_impl_objects(partial_path, next_level)
find_impl_objects(m, partial_path, next_level) ==
    IF ~EndsWithDot(partial_path) THEN NoSuchPath
    ELSE
    LET generic_partial_path == _generic_dm_path(partial_path)
        dm_regex_str == _dm_regex(partial_path, TRUE)
        partial_path_part_len == Len(Split(partial_path)) - 1
        matching == { dm_key \in DOMAIN m : FullMatch(dm_regex_str, dm_key) }
    IN  IF matching = {} THEN NoSuchPath
        ELSE OkKeys((UNION { impl_found_key(dm_key, partial_path_part_len, next_level) :
                               dm_key \in matching }) \ {generic_partial_path})

---------------------------------------------------------------------------
(* get                                                                     *)

\* the largest reading of int(time.time() - self._start_time) in the model
MaxUptime == 1

TimeZonePath == <<"Device", ".", "Time", ".", "LocalTimeZone">>

\* get_key without the final else branch: value stays None
get_key_no_else(d, m, path, u) ==
    IF d[path] = UPTIME THEN Ok(IntV(u))
    ELSE IF d[path] = IPADDR THEN Ok(StrV("ipaddr"))
    ELSE IF d[path] = CURR_TIME
         THEN IF TimeZonePath \notin DOMAIN d THEN Raise("KeyError")
              ELSE IF d[TimeZonePath].t # "str" THEN Raise("AttributeError")
              ELSE IF d[TimeZonePath].s = "CST6CDT" THEN Ok(StrV("now-06:00"))
              ELSE Ok(StrV("nowZ"))
    ELSE IF d[path] = NUM_ENTRIES
         THEN LET inst_path == SubNumberOfEntries(path)
                  found_instances == find_instances(d, m, inst_path)
              IN  IF found_instances.kind = "ok"
                  THEN Ok(IntV(Cardinality(found_instances.keys)))
                  ELSE found_instances
    ELSE Ok(NoneV)

\* get of a key where the counter's own path is handed to find_instances
get_key_counter_path(d, m, path, u) ==
    IF d[path] = NUM_ENTRIES
    THEN LET found_instances == find_instances(d, m, path)
         IN  IF found_instances.kind = "ok"
             THEN Ok(IntV(Cardinality(found_instances.keys)))
             ELSE found_instances
    ELSE get_key_no_else(d, m, path, u)

\* Database.get(path) when path is a key of the store; u is the clock's
\* reading of the seconds since construction.  The time zones of the model
\* hold no ",", so time_zone.split(",")[0] is the whole value
get_key(d, m, path, u) ==
    IF d[path] = UPTIME THEN Ok(IntV(u))
    ELSE IF d[path] = IPADDR THEN Ok(StrV("ipaddr"))
    ELSE IF d[path] = CURR_TIME
         THEN IF TimeZonePath \notin DOMAIN d THEN Raise("KeyError")
              ELSE IF d[TimeZonePath].t # "str" THEN Raise("AttributeError")
              ELSE IF d[TimeZonePath].s = "CST6CDT" THEN Ok(StrV("now-06:00"))
              ELSE Ok(StrV("nowZ"))
    ELSE IF d[path] = NUM_ENTRIES
         THEN LET inst_path == SubNumberOfEntries(path)
                  found_instances == find_instances(d, m, inst_path)
              IN  IF found_instances.kind = "ok"
                  THEN Ok(IntV(Cardinality(found_instances.keys)))
                  ELSE found_instances
    ELSE Ok(d[path])

\* Database.get_obj(partial_path)
get_obj(d, m, partial_path, u) ==
    LET items == find_params(d, m, partial_path) IN
    IF items.kind # "ok" THEN items
    ELSE LET failed == { item \in items.keys : get_key(d, m, item, u).kind # "ok" }
         IN  IF failed # {}
             THEN get_key(d, m, CHOOSE item \in failed : TRUE, u)
             ELSE OkObj([item \in items.keys |-> get_key(d, m, item, u).val])

\* get without the branch for a path that ends in "."
get_key_only(d, m, path, u) ==
    IF path \in DOMAIN d THEN get_key(d, m, path, u)
    ELSE NoSuchPath

\* Database.get(path)
get(d, m, path, u) ==
    IF path \in DOMAIN d THEN get_key(d, m, path, u)
    ELSE IF EndsWithDot(path) THEN get_obj(d, m, path, u)
    ELSE NoSuchPath

\* every result get(path) can give, over the readings of the clock
GetOutcomes(d, m, path) == { get(d, m, path, u) : u \in 0..MaxUptime }

---------------------------------------------------------------------------
(* The paths, schemas and persisted files of the model                     *)

TestTable == <<"Device", ".", "Test", ".">>
TestCounter == <<"Device", ".", "Test", "NumberOfEntries">>
TestRow == <<"Device", ".", "Test", ".", "{i}", ".">>
TestRow1 == <<"Device", ".", "Test", ".", "1", ".">>
TestAlias == <<"Device", ".", "Test", ".", "{i}", ".", "Alias">>
TestAlias1 == <<"Device", ".", "Test", ".", "1", ".", "Alias">>
TestAlias2 == <<"Device", ".", "Test", ".", "2", ".", "Alias">>
TestAliasAny == <<"Device", ".", "Test", ".", "*", ".", "Alias">>
InfoUptime == <<"Device", ".", "Info", ".", "Uptime">>
Bogus == <<"Device", ".", "Bogus">>

CameraPrefix(i) ==
    <<"Device", ".", "Services", ".", "HomeAutomation", ".", i, ".", "Camera", ".", i, ".">>
PicTable == CameraPrefix("{i}") \o <<"Pic", ".">>
PicRow == CameraPrefix("{i}") \o <<"Pic", ".", "{i}", ".">>
PicURL == CameraPrefix("{i}") \o <<"Pic", ".", "{i}", ".", "URL">>
PicCounter == CameraPrefix("{i}") \o <<"Pic", "NumberOfEntries">>
PicTable1 == CameraPrefix("1") \o <<"Pic", ".">>
PicRow1 == CameraPrefix("1") \o <<"Pic", ".", "1", ".">>
PicURL1 == CameraPrefix("1") \o <<"Pic", ".", "1", ".", "URL">>
PicCounter1 == CameraPrefix("1") \o <<"Pic", "NumberOfEntries">>

\* self._supported_insert_path_list, self._supported_delete_path_list
supported_insert_path_list == {PicTable, TestTable}
supported_delete_path_list == {PicRow, TestTable}

\* the schema of the spec's insert scenario
DmScenario == (TestRow :> "readWrite")

\* a schema with parameters and read-only instance counters
DmReadOnlyCounters ==
    (TestRow :> "readWrite") @@ (TestAlias :> "readWrite")
      @@ (TestCounter :> "readOnly") @@ (InfoUptime :> "readOnly")
      @@ (PicURL :> "readWrite") @@ (PicCounter :> "readOnly")

\* the same schema with writable instance counters
DmWritableCounters ==
    (TestCounter :> "readWrite") @@ (PicCounter :> "readWrite") @@ DmReadOnlyCounters

Schemas == {DmScenario, DmReadOnlyCounters, DmWritableCounters}

\* the content of the persisted file: a JSON object, or text that json.load
\* rejects (ok = FALSE), such as the empty file open(..., "w") leaves
JsonFile(d) == [ok |-> TRUE, data |-> d]
BadFile == [ok |-> FALSE, data |-> EmptyMap]

InitFiles ==
    { JsonFile(EmptyMap),
      BadFile,
      JsonFile((TestCounter :> IntV(1)) @@ (TestAlias1 :> StrV("x"))),
      JsonFile((TestCounter :> NUM_ENTRIES) @@ (TestAlias1 :> StrV("x"))
                 @@ (TestAlias2 :> StrV("x"))),
      JsonFile((Bogus :> StrV("x")) @@ (InfoUptime :> UPTIME)),
      JsonFile((PicURL1 :> StrV("x")) @@ (PicCounter1 :> IntV(1))) }

\* the arguments of the calls
UpdatePaths == {TestAlias1, TestAliasAny, TestCounter, InfoUptime, Bogus}
UpdateValues == {IntV(0), StrV("y"), UPTIME}
InsertPaths == {TestTable, PicTable1, TestRow1}
DeletePaths == {TestTable, PicRow1, TestRow1}

\* the calling threads; the sequential specification runs the first alone
Threads == {"a", "b"}
SeqThreads == {"a"}

\* the number of calls made in a behaviour
MaxCalls == 3

---------------------------------------------------------------------------
(* The mutating operations, as functions of the store                      *)

\* _update with the value stored under the generic path instead of the path
_update_generic_key(d, m, path, value) ==
    LET dm_param_path == _generic_dm_path(path) IN
    IF dm_param_path \in DOMAIN m
    THEN [db |-> DictSet(d, dm_param_path, value), res |-> Ok(NoneV)]
    ELSE [db |-> d, res |-> NoSuchPath]

\* _update without the validation against the schema
_update_unvalidated(d, m, path, value) ==
    [db |-> DictSet(d, path, value), res |-> Ok(NoneV)]

\* Database._update(path, value): the store afterwards and the result
_update(d, m, path, value) ==
    LET dm_param_path == _generic_dm_path(path) IN
    IF dm_param_path \in DOMAIN m
    THEN [db |-> DictSet(d, path, value), res |-> Ok(NoneV)]
    ELSE [db |-> d, res |-> NoSuchPath]

\* update without the is_param_writable test
update_unchecked(d, m, path, value) == _update(d, m, path, value)

\* Database.update(path, value)
update(d, m, path, value) ==
    LET w == is_param_writable(m, path) IN
    IF w = "true" THEN _update(d, m, path, value)
    ELSE [db |-> d, res |-> NoSuchPath]

\* Database.reset(): the store loaded from the persisted file
reset(f) == IF f.ok THEN f.data ELSE EmptyMap

\* Database.insert and Database.delete: the generic form looked up in the
\* supported-path lists
supported_form(partial_path) ==
    SubInstNum(SubBrackets(partial_path), 1, <<".", "{i}", ".">>)

\* insert_allowed without the test against the supported-insert list
insert_allowed_unlisted(m, partial_path) ==
    LET found == find_impl_objects(m, partial_path, TRUE) IN
    /\ found.kind = "ok"
    /\ found.keys # {}

\* Database.insert, up to the allocation section: TRUE when the path passes
\* find_impl_objects and the supported-insert list
insert_allowed(m, partial_path) ==
    LET found == find_impl_objects(m, partial_path, TRUE) IN
    /\ found.kind = "ok"
    /\ found.keys # {}
    /\ supported_form(partial_path) \in supported_insert_path_list

\* Database.insert: next_inst_num_path = partial_path[:-1] + "NumberOfEntries"
next_inst_num_path(partial_path) ==
    SubSeq(partial_path, 1, Len(partial_path) - 1) \o <<"NumberOfEntries">>

\* next_inst_num starting a table without a counter at 0
next_inst_num_from_zero(r) ==
    IF r.kind = "ok"
    THEN IF r.val.t = "int" THEN Ok(IntV(r.val.n + 1)) ELSE Raise("TypeError")
    ELSE IF r.kind = "NoSuchPathError" THEN Ok(IntV(0))
    ELSE r

\* next_inst_num with the counter's value returned as it is read
next_inst_num_no_increment(r) ==
    IF r.kind = "ok"
    THEN IF r.val.t = "int" THEN Ok(IntV(r.val.n)) ELSE Raise("TypeError")
    ELSE IF r.kind = "NoSuchPathError" THEN Ok(IntV(1))
    ELSE r

\* Database.insert: next_inst_num = self.get(next_inst_num_path) + 1, or 1 when
\* get raises NoSuchPathError; r is what get gave
next_inst_num(r) ==
    IF r.kind = "ok"
    THEN IF r.val.t = "int" THEN Ok(IntV(r.val.n + 1)) ELSE Raise("TypeError")
    ELSE IF r.kind = "NoSuchPathError" THEN Ok(IntV(1))
    ELSE r

\* delete_check raising NotImplementedError for a path outside the
\* supported-delete list as well
delete_check_unlisted_distinct(d, m, partial_path) ==
    LET found == find_objects(d, m, partial_path) IN
    IF found.kind # "ok" THEN found.kind
    ELSE IF found.keys = {} THEN "NoSuchPathError"
    ELSE IF supported_form(partial_path) = PicRow THEN "go"
    ELSE "NotImplementedError"

\* delete_check raising NoSuchPathError for a listed path without a handler
delete_check_no_signal(d, m, partial_path) ==
    LET found == find_objects(d, m, partial_path) IN
    IF found.kind # "ok" THEN found.kind
    ELSE IF found.keys = {} THEN "NoSuchPathError"
    ELSE IF supported_form(partial_path) \notin supported_delete_path_list
         THEN "NoSuchPathError"
    ELSE IF supported_form(partial_path) = PicRow THEN "go"
    ELSE "NoSuchPathError"

\* Database.delete, up to the removal: "go" for the table with a handler, or
\* the exception raised
delete_check(d, m, partial_path) ==
    LET found == find_objects(d, m, partial_path) IN
    IF found.kind # "ok" THEN found.kind
    ELSE IF found.keys = {} THEN "NoSuchPathError"
    ELSE IF supported_form(partial_path) \notin supported_delete_path_list
         THEN "NoSuchPathError"
    ELSE IF supported_form(partial_path) = PicRow THEN "go"
    ELSE "NotImplementedError"

---------------------------------------------------------------------------
(* The state                                                               *)

VARIABLES
    dm,        \* self._dm: generic path -> access mode
    db,        \* self._db: concrete path -> value
    file,      \* the content of the file self._db_filename
    file0,     \* the content of the file at construction
    new_inst_num_lock,   \* "free" or the thread inside `with self._new_inst_num_lock`
    file_write_lock,     \* "free" or the thread inside `with self._file_write_lock`
    pc,        \* where each thread is in its call
    loc,       \* the locals of each thread's call
    last,      \* each thread's last completed call and its result
    issued,    \* the instance numbers insert returned, in order
    ncalls     \* the calls made so far

vars == <<dm, db, file, file0, new_inst_num_lock, file_write_lock, pc, loc, last,
          issued, ncalls>>

NoLocals == [path |-> <<>>, op |-> "none", counter |-> <<>>, num |-> 0, changed |-> FALSE]
NoCall == [path |-> <<>>, value |-> NoneV, res |-> Ok(NoneV), op |-> "none", changed |-> FALSE]

Returned(op, path, value, res, changed) ==
    [path |-> path, value |-> value, res |-> res, op |-> op, changed |-> changed]

\* Database.__init__: the schema is loaded, then reset() loads the store
Init ==
    /\ dm \in Schemas
    /\ file \in InitFiles
    /\ file0 = file
    /\ db = reset(file)
    /\ new_inst_num_lock = "free"
    /\ file_write_lock = "free"
    /\ pc = [t \in Threads |-> "idle"]
    /\ loc = [t \in Threads |-> NoLocals]
    /\ last = [t \in Threads |-> NoCall]
    /\ issued = <<>>
    /\ ncalls = 0

CanCall(t) == pc[t] = "idle" /\ ncalls < MaxCalls

\* update(path, value): one check and one dict assignment, no save
Update(t, path, value) ==
    /\ CanCall(t)
    /\ LET r == update(db, dm, path, value) IN
       /\ db' = r.db
       /\ last' = [last EXCEPT ![t] = Returned("update", path, value, r.res, r.db # db)]
    /\ ncalls' = ncalls + 1
    /\ UNCHANGED <<dm, file, file0, new_inst_num_lock, file_write_lock, pc, loc, issued>>

\* reset(): reload the store from the file, under no lock
Reset(t) ==
    /\ CanCall(t)
    /\ db' = reset(file)
    /\ last' = [last EXCEPT ![t] = Returned("reset", <<>>, NoneV, Ok(NoneV), db' # db)]
    /\ ncalls' = ncalls + 1
    /\ UNCHANGED <<dm, file, file0, new_inst_num_lock, file_write_lock, pc, loc, issued>>

\* insert(partial_path), lines 336-346: the checks before the allocation section
InsertCall(t, path) ==
    /\ CanCall(t)
    /\ ncalls' = ncalls + 1
    /\ IF insert_allowed(dm, path)
       THEN /\ pc' = [pc EXCEPT ![t] = "ins_lock"]
            /\ loc' = [loc EXCEPT ![t] = [path |-> path, op |-> "insert",
                                          counter |-> next_inst_num_path(path),
                                          num |-> 0, changed |-> FALSE]]
            /\ UNCHANGED last
       ELSE /\ last' = [last EXCEPT ![t] = Returned("insert", path, NoneV, NoSuchPath, FALSE)]
            /\ UNCHANGED <<pc, loc>>
    /\ UNCHANGED <<dm, db, file, file0, new_inst_num_lock, file_write_lock, issued>>

\* InsAcquire entering the allocation section without waiting for the lock
InsAcquire_unguarded(t) ==
    /\ pc[t] = "ins_lock"
    /\ new_inst_num_lock' = t
    /\ pc' = [pc EXCEPT ![t] = "ins_get"]
    /\ UNCHANGED <<dm, db, file, file0, file_write_lock, loc, last, issued, ncalls>>

\* insert, line 347: with self._new_inst_num_lock
InsAcquire(t) ==
    /\ pc[t] = "ins_lock"
    /\ new_inst_num_lock = "free"
    /\ new_inst_num_lock' = t
    /\ pc' = [pc EXCEPT ![t] = "ins_get"]
    /\ UNCHANGED <<dm, db, file, file0, file_write_lock, loc, last, issued, ncalls>>

\* insert, lines 348-351: read the counter; an exception other than
\* NoSuchPathError leaves the with block and releases the lock
InsGet(t) ==
    /\ pc[t] = "ins_get"
    /\ \E r \in GetOutcomes(db, dm, loc[t].counter) :
         LET n == next_inst_num(r) IN
         IF n.kind = "ok"
         THEN /\ loc' = [loc EXCEPT ![t].num = n.val.n]
              /\ pc' = [pc EXCEPT ![t] = "ins_update"]
              /\ UNCHANGED <<new_inst_num_lock, last>>
         ELSE /\ new_inst_num_lock' = "free"
              /\ last' = [last EXCEPT ![t] = Returned("insert", loc[t].path, NoneV, n, FALSE)]
              /\ loc' = [loc EXCEPT ![t] = NoLocals]
              /\ pc' = [pc EXCEPT ![t] = "idle"]
    /\ UNCHANGED <<dm, db, file, file0, file_write_lock, issued, ncalls>>

\* InsUpdate leaving the allocation lock held when _update raises
InsUpdate_keeps_lock(t) ==
    /\ pc[t] = "ins_update"
    /\ LET r == _update(db, dm, loc[t].counter, IntV(loc[t].num)) IN
       IF r.res.kind = "ok"
       THEN /\ db' = r.db
            /\ loc' = [loc EXCEPT ![t].changed = (r.db # db)]
            /\ pc' = [pc EXCEPT ![t] = "save_lock"]
            /\ UNCHANGED last
       ELSE /\ last' = [last EXCEPT ![t] = Returned("insert", loc[t].path, NoneV, r.res, FALSE)]
            /\ loc' = [loc EXCEPT ![t] = NoLocals]
            /\ pc' = [pc EXCEPT ![t] = "idle"]
            /\ UNCHANGED db
    /\ UNCHANGED <<dm, file, file0, new_inst_num_lock, file_write_lock, issued, ncalls>>

\* insert, line 352: self._update(next_inst_num_path, next_inst_num)
InsUpdate(t) ==
    /\ pc[t] = "ins_update"
    /\ LET r == _update(db, dm, loc[t].counter, IntV(loc[t].num)) IN
       IF r.res.kind = "ok"
       THEN /\ db' = r.db
            /\ loc' = [loc EXCEPT ![t].changed = (r.db # db)]
            /\ pc' = [pc EXCEPT ![t] = "save_lock"]
            /\ UNCHANGED <<new_inst_num_lock, last>>
       ELSE /\ new_inst_num_lock' = "free"
            /\ last' = [last EXCEPT ![t] = Returned("insert", loc[t].path, NoneV, r.res, FALSE)]
            /\ loc' = [loc EXCEPT ![t] = NoLocals]
            /\ pc' = [pc EXCEPT ![t] = "idle"]
            /\ UNCHANGED db
    /\ UNCHANGED <<dm, file, file0, file_write_lock, issued, ncalls>>

\* _save, line 430: with self._file_write_lock
SaveAcquire(t) ==
    /\ pc[t] = "save_lock"
    /\ file_write_lock = "free"
    /\ file_write_lock' = t
    /\ pc' = [pc EXCEPT ![t] = "save_open"]
    /\ UNCHANGED <<dm, db, file, file0, new_inst_num_lock, loc, last, issued, ncalls>>

\* _save, line 431: open(self._db_filename, "w") truncates the file
SaveOpen(t) ==
    /\ pc[t] = "save_open"
    /\ file' = BadFile
    /\ pc' = [pc EXCEPT ![t] = "save_dump"]
    /\ UNCHANGED <<dm, db, file0, new_inst_num_lock, file_write_lock, loc, last, issued, ncalls>>

\* the thread after _save returns: insert is still inside its allocation
\* section, delete returns
after_save(op) == IF op = "insert" THEN "ins_unlock" ELSE "idle"

\* SaveDump leaving the file-write lock held
SaveDump_keeps_lock(t) ==
    /\ pc[t] = "save_dump"
    /\ file' = JsonFile(db)
    /\ pc' = [pc EXCEPT ![t] = after_save(loc[t].op)]
    /\ IF after_save(loc[t].op) = "idle"
       THEN /\ last' = [last EXCEPT ![t] =
                          Returned(loc[t].op, loc[t].path, NoneV, Ok(NoneV), loc[t].changed)]
            /\ loc' = [loc EXCEPT ![t] = NoLocals]
       ELSE UNCHANGED <<last, loc>>
    /\ UNCHANGED <<dm, db, file0, new_inst_num_lock, file_write_lock, issued, ncalls>>

\* _save, line 432: json.dump(self._db, db_file), then the file and the lock
\* are released
SaveDump(t) ==
    /\ pc[t] = "save_dump"
    /\ file' = JsonFile(db)
    /\ file_write_lock' = "free"
    /\ pc' = [pc EXCEPT ![t] = after_save(loc[t].op)]
    /\ IF after_save(loc[t].op) = "idle"
       THEN /\ last' = [last EXCEPT ![t] =
                          Returned(loc[t].op, loc[t].path, NoneV, Ok(NoneV), loc[t].changed)]
            /\ loc' = [loc EXCEPT ![t] = NoLocals]
       ELSE UNCHANGED <<last, loc>>
    /\ UNCHANGED <<dm, db, file0, new_inst_num_lock, issued, ncalls>>

\* insert, lines 353-367: the allocation section ends, insert returns the number
InsRelease(t) ==
    /\ pc[t] = "ins_unlock"
    /\ new_inst_num_lock' = "free"
    /\ issued' = Append(issued, [path |-> loc[t].path, num |-> loc[t].num, by |-> t])
    /\ last' = [last EXCEPT ![t] =
                  Returned("insert", loc[t].path, NoneV, Ok(IntV(loc[t].num)), loc[t].changed)]
    /\ loc' = [loc EXCEPT ![t] = NoLocals]
    /\ pc' = [pc EXCEPT ![t] = "idle"]
    /\ UNCHANGED <<dm, db, file, file0, file_write_lock, ncalls>>

\* delete(partial_path), lines 374-390: the checks before the removal
DeleteCall(t, path) ==
    /\ CanCall(t)
    /\ ncalls' = ncalls + 1
    /\ LET c == delete_check(db, dm, path) IN
       IF c = "go"
       THEN /\ pc' = [pc EXCEPT ![t] = "del_key"]
            /\ loc' = [loc EXCEPT ![t] = [path |-> path, op |-> "delete", counter |-> <<>>,
                                          num |-> 0, changed |-> FALSE]]
            /\ UNCHANGED last
       ELSE /\ last' = [last EXCEPT ![t] = Returned("delete", path, NoneV, Raise(c), FALSE)]
            /\ UNCHANGED <<pc, loc>>
    /\ UNCHANGED <<dm, db, file, file0, new_inst_num_lock, file_write_lock, issued>>

\* delete, line 383: del self._db[partial_path + "URL"]
DelKey(t) ==
    /\ pc[t] = "del_key"
    /\ LET key == loc[t].path \o <<"URL">> IN
       IF key \in DOMAIN db
       THEN /\ db' = DictDel(db, key)
            /\ loc' = [loc EXCEPT ![t].changed = TRUE]
            /\ pc' = [pc EXCEPT ![t] = "save_lock"]
            /\ UNCHANGED last
       ELSE /\ last' = [last EXCEPT ![t] =
                          Returned("delete", loc[t].path, NoneV, Raise("KeyError"), FALSE)]
            /\ loc' = [loc EXCEPT ![t] = NoLocals]
            /\ pc' = [pc EXCEPT ![t] = "idle"]
            /\ UNCHANGED db
    /\ UNCHANGED <<dm, file, file0, new_inst_num_lock, file_write_lock, issued, ncalls>>

\* the steps inside an insert call
InsertStep(t) ==
    \/ InsAcquire(t)
    \/ InsGet(t)
    \/ InsUpdate(t)
    \/ SaveAcquire(t)
    \/ SaveOpen(t)
    \/ SaveDump(t)
    \/ InsRelease(t)

\* the steps inside a call
Step(t) ==
    \/ InsertStep(t)
    \/ DelKey(t)

\* one caller at a time: any sequence of calls
Next ==
    \E t \in SeqThreads :
        \/ \E path \in UpdatePaths, value \in UpdateValues : Update(t, path, value)
        \/ \E path \in InsertPaths : InsertCall(t, path)
        \/ \E path \in DeletePaths : DeleteCall(t, path)
        \/ Reset(t)
        \/ Step(t)

Spec == Init /\ [][Next]_vars

\* concurrent callers that only insert: every interleaving of their steps
NextInsert ==
    \E t \in Threads :
        \/ \E path \in InsertPaths : InsertCall(t, path)
        \/ InsertStep(t)

SpecInsert == Init /\ [][NextInsert]_vars

\* concurrent callers that insert and reset: reset reloads the store between
\* any two steps of an insert
NextInsertReset ==
    \E t \in Threads :
        \/ \E path \in InsertPaths : InsertCall(t, path)
        \/ InsertStep(t)
        \/ Reset(t)

SpecInsertReset == Init /\ [][NextInsertReset]_vars

---------------------------------------------------------------------------
(* The query operations, called on stores loaded from a file and changed   *)
(* by update                                                               *)

Root == <<"Device", ".">>
TestNoDot == <<"Device", ".", "Test">>
TestRowAny == <<"Device", ".", "Test", ".", "*", ".">>
TestRowAnyAny == <<"Device", ".", "Test", ".", "*", ".", "*", ".">>
TestAliasAnyAny == <<"Device", ".", "Test", ".", "*", ".", "*", ".", "Alias">>
TestMeta == <<"Device", ".", "Test", ".", "__", "NextInstNum", "__">>
InfoObj == <<"Device", ".", "Info", ".">>
BogusObj == <<"Device", ".", "Bogus", ".">>
PicTableAny == CameraPrefix("*") \o <<"Pic", ".">>
PicName == CameraPrefix("{i}") \o <<"Pic", ".", "{i}", ".", "Name">>
PicName1 == CameraPrefix("1") \o <<"Pic", ".", "1", ".", "Name">>

\* DmReadOnlyCounters with a second parameter in the rows of the Pic table
DmPicName == (PicName :> "readWrite") @@ DmReadOnlyCounters

QuerySchemas == {DmScenario, DmReadOnlyCounters}

QueryFiles ==
    { JsonFile(EmptyMap),
      JsonFile((TestCounter :> NUM_ENTRIES) @@ (TestAlias1 :> StrV("x"))
                 @@ (TestAlias2 :> StrV("x"))),
      JsonFile((TestAlias1 :> StrV("x")) @@ (TestMeta :> IntV(2))),
      JsonFile((InfoUptime :> UPTIME) @@ (TestAlias1 :> StrV("x"))),
      JsonFile((PicURL1 :> StrV("x")) @@ (PicCounter1 :> IntV(1))) }

QueryPaths ==
    { Root, TestTable, TestNoDot, TestRow1, TestRowAny, TestRowAnyAny,
      TestAlias1, TestAliasAny, TestAliasAnyAny, InfoObj, BogusObj,
      PicTable1, PicTableAny, PicRow1 }

QueryUpdatePaths == {TestAlias2, TestAliasAny}

\* a Python bool as an argument of a call
BoolV(b) == [s |-> "", n |-> IF b THEN 1 ELSE 0, t |-> "bool"]

InitQuery ==
    /\ dm \in QuerySchemas
    /\ file \in QueryFiles
    /\ file0 = file
    /\ db = reset(file)
    /\ new_inst_num_lock = "free"
    /\ file_write_lock = "free"
    /\ pc = [t \in Threads |-> "idle"]
    /\ loc = [t \in Threads |-> NoLocals]
    /\ last = [t \in Threads |-> NoCall]
    /\ issued = <<>>
    /\ ncalls = 0

\* a read call that writes the store to the file before it returns
Query_saves(t, op, path, value, res) ==
    /\ CanCall(t)
    /\ last' = [last EXCEPT ![t] = Returned(op, path, value, res, FALSE)]
    /\ ncalls' = ncalls + 1
    /\ file' = JsonFile(db)
    /\ UNCHANGED <<dm, db, file0, new_inst_num_lock, file_write_lock, pc, loc, issued>>

\* a call that only reads self._dm and self._db
Query(t, op, path, value, res) ==
    /\ CanCall(t)
    /\ last' = [last EXCEPT ![t] = Returned(op, path, value, res, FALSE)]
    /\ ncalls' = ncalls + 1
    /\ UNCHANGED <<dm, db, file, file0, new_inst_num_lock, file_write_lock, pc, loc, issued>>

FindParams(t, path) ==
    Query(t, "find_params", path, NoneV, find_params(db, dm, path))

FindInstances(t, path) ==
    Query(t, "find_instances", path, NoneV, find_instances(db, dm, path))

FindObjects(t, path) ==
    Query(t, "find_objects", path, NoneV, find_objects(db, dm, path))

FindImplObjects(t, path, next_level) ==
    Query(t, "find_impl_objects", path, BoolV(next_level),
          find_impl_objects(dm, path, next_level))

NextQuery ==
    \E t \in SeqThreads :
        \/ \E path \in QueryUpdatePaths : Update(t, path, StrV("y"))
        \/ \E path \in QueryPaths : FindParams(t, path)
        \/ \E path \in QueryPaths : FindInstances(t, path)
        \/ \E path \in QueryPaths : FindObjects(t, path)
        \/ \E path \in QueryPaths, next_level \in BOOLEAN :
              FindImplObjects(t, path, next_level)

SpecQuery == InitQuery /\ [][NextQuery]_vars

---------------------------------------------------------------------------
(* insert and delete, called on more tables and rows                       *)

OtherTable == <<"Device", ".", "Other", ".">>
OtherAlias == <<"Device", ".", "Other", ".", "{i}", ".", "Alias">>
PicTableX == CameraPrefix("{x}") \o <<"Pic", ".">>

\* a schema with a table that neither supported-path list names
DmTables == (OtherAlias :> "readWrite") @@ DmPicName

TableSchemas == {DmScenario, DmTables}

TableFiles ==
    { JsonFile(EmptyMap),
      JsonFile((TestCounter :> IntV(1)) @@ (TestAlias1 :> StrV("x"))),
      JsonFile((PicURL1 :> StrV("x")) @@ (PicCounter1 :> IntV(1))),
      JsonFile((PicURL1 :> StrV("x")) @@ (PicName1 :> StrV("x"))
                 @@ (PicCounter1 :> IntV(1))),
      JsonFile((PicName1 :> StrV("x")) @@ (PicCounter1 :> IntV(1))) }

TableInsertPaths == {TestTable, PicTable1, PicTableX, TestRow1, OtherTable, BogusObj, Root}
TableDeletePaths == {TestTable, PicRow1, TestRow1, PicTable1, BogusObj}

InitTable ==
    /\ dm \in TableSchemas
    /\ file \in TableFiles
    /\ file0 = file
    /\ db = reset(file)
    /\ new_inst_num_lock = "free"
    /\ file_write_lock = "free"
    /\ pc = [t \in Threads |-> "idle"]
    /\ loc = [t \in Threads |-> NoLocals]
    /\ last = [t \in Threads |-> NoCall]
    /\ issued = <<>>
    /\ ncalls = 0

NextTable ==
    \E t \in SeqThreads :
        \/ \E path \in TableInsertPaths : InsertCall(t, path)
        \/ \E path \in TableDeletePaths : DeleteCall(t, path)
        \/ Step(t)

SpecTable == InitTable /\ [][NextTable]_vars

---------------------------------------------------------------------------
(* Concurrent insert and delete calls under a fair scheduler               *)

FairInsertPaths == {TestTable}
FairDeletePaths == {PicRow1}

\* a schema whose insert raises inside the allocation section and one whose
\* insert succeeds, over a store with one row to delete
InitFair ==
    /\ InitTable
    /\ file = JsonFile((PicURL1 :> StrV("x")) @@ (PicCounter1 :> IntV(1)))

NextFair ==
    \E t \in Threads :
        \/ \E path \in FairInsertPaths : InsertCall(t, path)
        \/ \E path \in FairDeletePaths : DeleteCall(t, path)
        \/ Step(t)

\* a thread inside a call whose next step stays enabled takes it: a runnable
\* thread is scheduled, and a thread blocked on a lock is not runnable.  No
\* thread is bound to start a call
SpecFair ==
    /\ InitFair
    /\ [][NextFair]_vars
    /\ \A t \in Threads : WF_vars(Step(t))

---------------------------------------------------------------------------
(* The calls that only read: get, get_obj, the find operations and         *)
(* is_param_writable, on stores loaded from a file                         *)

InfoCounter == <<"Device", ".", "Info", "NumberOfEntries">>
InfoTime == <<"Device", ".", "Info", ".", "Time">>

ReadFiles ==
    { JsonFile(EmptyMap),
      BadFile,
      JsonFile((TestCounter :> NUM_ENTRIES) @@ (TestAlias1 :> StrV("x"))
                 @@ (TestAlias2 :> StrV("x"))),
      JsonFile((Bogus :> StrV("x")) @@ (InfoUptime :> UPTIME)),
      JsonFile((InfoUptime :> UPTIME) @@ (InfoTime :> CURR_TIME)),
      JsonFile((InfoCounter :> NUM_ENTRIES) @@ (TestAlias1 :> StrV("x"))) }

ReadPaths ==
    { Root, TestTable, TestNoDot, TestAlias1, TestAliasAnyAny, TestRowAnyAny,
      TestCounter, InfoObj, InfoUptime, InfoCounter, BogusObj }

InitRead ==
    /\ dm \in QuerySchemas
    /\ file \in ReadFiles
    /\ file0 = file
    /\ db = reset(file)
    /\ new_inst_num_lock = "free"
    /\ file_write_lock = "free"
    /\ pc = [t \in Threads |-> "idle"]
    /\ loc = [t \in Threads |-> NoLocals]
    /\ last = [t \in Threads |-> NoCall]
    /\ issued = <<>>
    /\ ncalls = 0

\* get(path); the clock is read during the call
Get(t, path) ==
    \E res \in GetOutcomes(db, dm, path) : Query(t, "get", path, NoneV, res)

\* get_obj(partial_path)
GetObj(t, path) ==
    \E u \in 0..MaxUptime : Query(t, "get_obj", path, NoneV, get_obj(db, dm, path, u))

\* is_param_writable(param_path): True, False or NoSuchPathError
IsParamWritable(t, path) ==
    LET w == is_param_writable(dm, path) IN
    Query(t, "is_param_writable", path, NoneV,
          IF w = "NoSuchPathError" THEN NoSuchPath ELSE Ok(BoolV(w = "true")))

NextRead ==
    \E t \in SeqThreads :
        \/ \E path \in ReadPaths : Get(t, path)
        \/ \E path \in ReadPaths : GetObj(t, path)
        \/ \E path \in ReadPaths : IsParamWritable(t, path)
        \/ \E path \in ReadPaths : FindParams(t, path)
        \/ \E path \in ReadPaths : FindInstances(t, path)
        \/ \E path \in ReadPaths : FindObjects(t, path)
        \/ \E path \in ReadPaths, next_level \in BOOLEAN :
              FindImplObjects(t, path, next_level)

SpecRead == InitRead /\ [][NextRead]_vars

---------------------------------------------------------------------------
(* Properties                                                              *)

\* the last call of thread t is complete and nothing has run since
Completed(t, op) == pc[t] = "idle" /\ last[t].op = op

\* the store the program starts from
InitialStore == reset(file0)

\* C1 as stated: after update(p, v) on a path for which is_param_writable(p)
\* is true, the update has succeeded and get(p) returns v, for every value v.
C1_UpdateThenGet ==
    \A t \in Threads :
        (Completed(t, "update") /\ is_param_writable(dm, last[t].path) = "true")
        => /\ last[t].res.kind = "ok"
           /\ GetOutcomes(db, dm, last[t].path) = {Ok(last[t].value)}

\* C1 amended: after update(p, v) on a path for which is_param_writable(p) is
\* true, with v none of the four marker tokens, the update has succeeded and
\* get(p) returns v.
C1_UpdateThenGetNoMarker ==
    \A t \in Threads :
        (/\ Completed(t, "update")
         /\ is_param_writable(dm, last[t].path) = "true"
         /\ last[t].value \notin Markers)
        => /\ last[t].res.kind = "ok"
           /\ GetOutcomes(db, dm, last[t].path) = {Ok(last[t].value)}

C1_Witness ==
    \E t \in Threads :
        /\ Completed(t, "update")
        /\ is_param_writable(dm, last[t].path) = "true"
        /\ last[t].value \notin Markers
        /\ last[t].changed

\* C2: an update call on a path whose generic form is read-only in the schema
\* or has no schema entry raises NoSuchPath and changes neither the store nor
\* the persisted file.
C2_UpdateRejected ==
    [][\A t \in Threads :
          (/\ pc[t] = "idle" /\ pc'[t] = "idle" /\ ncalls' # ncalls
           /\ last'[t].op = "update"
           /\ is_param_writable(dm, last'[t].path) # "true")
          => (last'[t].res = NoSuchPath /\ db' = db /\ file' = file)]_vars

C2_Witness ==
    \E t \in Threads :
        /\ Completed(t, "update")
        /\ is_param_writable(dm, last[t].path) = "false"
        /\ last[t].res = NoSuchPath
        /\ db # EmptyMap

\* C3: of the instance numbers returned by concurrent insert calls on one
\* table, each is one more than the one returned before it for that table: no
\* two calls return the same number, and two calls return consecutive numbers.
C3_DistinctConsecutive ==
    \A i, j \in 1..Len(issued) :
        (/\ i < j
         /\ issued[i].path = issued[j].path
         /\ \A k \in (i + 1)..(j - 1) : issued[k].path # issued[i].path)
        => issued[j].num = issued[i].num + 1

C3_Witness ==
    \E i, j \in 1..Len(issued) :
        /\ i < j
        /\ issued[i].path = issued[j].path
        /\ issued[i].by # issued[j].by

IsTestIssue(e) == e.path = TestTable

\* the numbers insert("Device.Test.") returned, in order
TestIssued == SelectSeq(issued, IsTestIssue)

\* C4 as stated: with the schema {"Device.Test.{i}.": readWrite} and an empty
\* store, every insert("Device.Test.") succeeds, the first returning 1 and
\* the second 2.
C4_Scenario ==
    (dm = DmScenario /\ InitialStore = EmptyMap)
    => /\ \A t \in Threads :
            (Completed(t, "insert") /\ last[t].path = TestTable) => last[t].res.kind = "ok"
       /\ \A k \in 1..Len(TestIssued) : TestIssued[k].num = k

\* C4 amended: with a schema that holds "Device.Test.{i}." and the counter
\* "Device.TestNumberOfEntries", and an empty store, every
\* insert("Device.Test.") succeeds, the first returning 1 and the second 2;
\* with the schema that holds "Device.Test.{i}." alone, insert("Device.Test.")
\* raises NoSuchPath.
C4_ScenarioWithCounter ==
    /\ (TestRow \in DOMAIN dm /\ TestCounter \in DOMAIN dm /\ InitialStore = EmptyMap)
       => /\ \A t \in Threads :
               (Completed(t, "insert") /\ last[t].path = TestTable)
               => last[t].res.kind = "ok"
          /\ \A k \in 1..Len(TestIssued) : TestIssued[k].num = k
    /\ dm = DmScenario
       => \A t \in Threads :
             (Completed(t, "insert") /\ last[t].path = TestTable)
             => last[t].res = NoSuchPath

C4_Witness ==
    /\ TestRow \in DOMAIN dm /\ TestCounter \in DOMAIN dm /\ InitialStore = EmptyMap
    /\ Len(TestIssued) = 2
    /\ TestIssued[2].num = 2

\* C5: after a completed update, insert or delete that changed the store, the
\* persisted file holds the store.
C5_Persisted ==
    \A t \in Threads :
        (/\ pc[t] = "idle"
         /\ last[t].op \in {"update", "insert", "delete"}
         /\ last[t].res.kind = "ok"
         /\ last[t].changed)
        => file = JsonFile(db)

\* thread t is acquiring (waiting for) a lock
AcquiringInstLock(t) == pc[t] = "ins_lock"
AcquiringFileLock(t) == pc[t] = "save_lock"

\* C6 as stated: no caller holds one of the two locks while it acquires or
\* holds the other.
C6_NeverNested ==
    \A t \in Threads :
        /\ ~(new_inst_num_lock = t /\ (AcquiringFileLock(t) \/ file_write_lock = t))
        /\ ~(file_write_lock = t /\ (AcquiringInstLock(t) \/ new_inst_num_lock = t))

\* C6 amended: no caller acquires the instance-allocation lock while it holds
\* the file-write lock; the one nesting is that of insert, which acquires and
\* holds the file-write lock for its save while it holds the
\* instance-allocation lock.
C6_NestedOneWay ==
    \A t \in Threads :
        /\ file_write_lock = t => pc[t] \in {"save_open", "save_dump"}
        /\ ~(file_write_lock = t /\ AcquiringInstLock(t))
        /\ (new_inst_num_lock = t /\ (AcquiringFileLock(t) \/ file_write_lock = t))
           => loc[t].op = "insert"

C6_Witness ==
    \E t \in Threads : new_inst_num_lock = t /\ file_write_lock = t

RECURSIVE Join(_)
\* ".".join(parts)
Join(parts) ==
    IF Len(parts) = 1 THEN parts[1] ELSE parts[1] \o <<".">> \o Join(Tail(parts))

\* a purely numeric segment, or the wildcard
IsInstanceSegment(seg) ==
    \/ seg = <<"*">>
    \/ Len(seg) > 0 /\ \A k \in 1..Len(seg) : seg[k] \in Digits

\* the path with every instance segment replaced by {i}
GenericForm(path) ==
    LET parts == Split(path) IN
    Join([k \in 1..Len(parts) |->
            IF IsInstanceSegment(parts[k]) THEN <<"{i}">> ELSE parts[k]])

\* C7: from an empty store, after any sequence of update, insert, delete and
\* reset calls, every key of the store has its generic form in the schema.
C7_KeysInSchema ==
    InitialStore = EmptyMap
    => \A key \in DOMAIN db :
          /\ GenericForm(key) \in DOMAIN dm
          /\ _generic_dm_path(key) \in DOMAIN dm

C7_Witness ==
    /\ InitialStore = EmptyMap
    /\ TestAlias1 \in DOMAIN db
    /\ TestCounter \in DOMAIN db
    /\ \E t \in Threads : Completed(t, "reset")

\* C8: get(p) raises NoSuchPath for every path p whose generic form has no
\* schema entry, also when p is a key of the store.
C8_GetUnimplemented ==
    \A path \in UpdatePaths \cup DOMAIN db :
        _generic_dm_path(path) \notin DOMAIN dm
        => GetOutcomes(db, dm, path) = {NoSuchPath}

\* the instance-counter parameters of the model's tables
Counters == {TestCounter, PicCounter1}

\* C9: no step of an insert, update, delete or reset call lowers the stored
\* value of a table's instance counter.
C9_CounterNeverDecreases ==
    [][\A c \in Counters :
          (/\ c \in DOMAIN db /\ c \in DOMAIN db'
           /\ db[c].t = "int" /\ db'[c].t = "int")
          => db'[c].n >= db[c].n]_vars

\* C10: get(p) returns the stored value for every key p of the store whose
\* generic form is in the schema and whose value is none of the four markers.
C10_GetStored ==
    \A path \in DOMAIN db :
        (_generic_dm_path(path) \in DOMAIN dm /\ db[path] \notin Markers)
        => GetOutcomes(db, dm, path) = {Ok(db[path])}

C10_Witness ==
    \E path \in DOMAIN db :
        /\ _generic_dm_path(path) \in DOMAIN dm
        /\ db[path] \notin Markers
        /\ \E other \in DOMAIN db : db[other] \in Markers
        /\ \E t \in Threads : Completed(t, "update") /\ last[t].path = path /\ last[t].changed

---------------------------------------------------------------------------
(* The query operations                                                    *)

\* a segment made of digits only
IsNumericSegment(seg) == Len(seg) > 0 /\ \A k \in 1..Len(seg) : seg[k] \in Digits

\* a segment of a path expression against a segment of a store key: "*"
\* stands for any digit-only segment, anything else for itself
StoreSegment(pseg, kseg) ==
    IF pseg = <<"*">> THEN IsNumericSegment(kseg) ELSE kseg = pseg

\* key matches the path expression segment by segment: as a prefix when the
\* path ends in ".", as a whole otherwise
PathMatch(path, key) ==
    LET pp == Split(path)
        kp == Split(key)
    IN  IF EndsWithDot(path)
        THEN /\ Len(kp) >= Len(pp)
             /\ \A k \in 1..(Len(pp) - 1) : StoreSegment(pp[k], kp[k])
        ELSE /\ Len(kp) = Len(pp)
             /\ \A k \in 1..Len(pp) : StoreSegment(pp[k], kp[k])

\* the schema keys that fully match the schema pattern of a path
SchemaMatching(path) ==
    { dm_key \in DOMAIN dm : FullMatch(_dm_regex(path, EndsWithDot(path)), dm_key) }

\* the store keys that fully match the store pattern of a path
StoreMatching(path) ==
    { key \in DOMAIN db : FullMatch(_db_regex(path, EndsWithDot(path)), key) }

\* a segment that starts and ends with "__"
IsMetaSegment(seg) == Len(seg) > 0 /\ seg[1] = "__" /\ Last(seg) = "__"

\* a key whose parameter segment, the last one, is a meta segment
IsMetaParameterPath(key) == IsMetaSegment(Last(Split(key)))

\* C11: find_params(path) raises NoSuchPath when no schema key matches the
\* schema pattern of path, and otherwise returns exactly the store keys that
\* match the store pattern of path (as a prefix when path ends in ".", as a
\* whole otherwise, "*" standing for any digit-only segment) and are not
\* meta-parameters.
C11_FindParams ==
    \A t \in Threads :
        Completed(t, "find_params")
        => LET path == last[t].path IN
           IF SchemaMatching(path) = {}
           THEN last[t].res = NoSuchPath
           ELSE last[t].res =
                    OkKeys({ key \in DOMAIN db :
                               /\ PathMatch(path, key)
                               /\ ~IsMetaParameterPath(key) })

\* the first n segments of key, each followed by "."
KeyPrefix(key, n) == Join(SubSeq(Split(key), 1, n)) \o <<".">>

\* the number of segments of a partial path, its final "." not counted
PrefixLen(partial_path) == Len(Split(partial_path)) - 1

\* C12: find_instances(partialPath), when it succeeds, returns exactly the
\* strings prefix + instance number + "." of the store keys matching the store
\* pattern of partialPath, and every returned string ends in a purely numeric
\* instance segment.
C12_FindInstances ==
    \A t \in Threads :
        Completed(t, "find_instances") /\ last[t].res.kind = "ok"
        => LET path == last[t].path
               n == PrefixLen(path)
           IN  /\ last[t].res.keys =
                     { KeyPrefix(key, n + 1) :
                         key \in { k \in StoreMatching(path) :
                                     ~IsMetaSegment(Split(k)[n + 1]) } }
               /\ \A found_key \in last[t].res.keys :
                     IsNumericSegment(Split(found_key)[n + 1])

\* the segment of key that follows its first n segments is the placeholder
HasPlaceholderAfter(dm_key, n) ==
    Len(Split(dm_key)) > n /\ Split(dm_key)[n + 1] = <<"{i}">>

\* C13: find_instances(partialPath) raises NoSuchPath when partialPath does
\* not end in ".", when no schema key matches its schema pattern, and when no
\* matching schema key has {i} as the segment that follows the given prefix.
C13_FindInstancesNoSuchPath ==
    \A t \in Threads :
        Completed(t, "find_instances")
        => LET path == last[t].path IN
           (\/ ~EndsWithDot(path)
            \/ SchemaMatching(path) = {}
            \/ \A dm_key \in SchemaMatching(path) :
                  ~HasPlaceholderAfter(dm_key, PrefixLen(path)))
           => last[t].res = NoSuchPath

ImplEmitted(dm_key, n, next_level) ==
    IF next_level
    THEN IF Len(Split(dm_key)) > n + 1 THEN {KeyPrefix(dm_key, n + 1)} ELSE {}
    ELSE {KeyPrefix(dm_key, Len(Split(dm_key)) - 1)}

\* C15: find_impl_objects(partialPath, nextLevelOnly), partialPath ending in
\* ".", raises NoSuchPath when no schema key matches the schema pattern;
\* otherwise it returns, for each matching schema key, the key truncated one
\* segment past the input when nextLevelOnly is true (nothing for a key with
\* no next level) and the key without its final component when it is false,
\* and never the generic form of partialPath itself.
C15_FindImplObjects ==
    \A t \in Threads :
        Completed(t, "find_impl_objects") /\ EndsWithDot(last[t].path)
        => LET path == last[t].path
               next_level == (last[t].value = BoolV(TRUE))
           IN  IF SchemaMatching(path) = {}
               THEN last[t].res = NoSuchPath
               ELSE /\ last[t].res =
                          OkKeys((UNION { ImplEmitted(dm_key, PrefixLen(path), next_level) :
                                            dm_key \in SchemaMatching(path) })
                                 \ {GenericForm(path)})
                    /\ GenericForm(path) \notin last[t].res.keys

\* find_impl_objects("Device.", true) has returned the three objects under
\* the root, the counter parameter next to them contributing nothing
C15_Witness ==
    \E t \in Threads :
        /\ Completed(t, "find_impl_objects")
        /\ last[t].path = Root
        /\ last[t].value = BoolV(TRUE)
        /\ TestCounter \in DOMAIN dm
        /\ last[t].res.kind = "ok"
        /\ TestTable \in last[t].res.keys
        /\ Cardinality(last[t].res.keys) = 3

\* the instance segment of a path returned by find_instances: its last
\* segment before the final "."
InstanceSegment(found_key) == Split(found_key)[Len(Split(found_key)) - 1]

\* C16: no result of find_params is a meta-parameter path (a key whose
\* parameter segment starts and ends with "__"), and no result of
\* find_instances has an instance segment that starts and ends with "__".
C16_NoMetaParameter ==
    \A t \in Threads :
        /\ Completed(t, "find_params") /\ last[t].res.kind = "ok"
           => \A key \in last[t].res.keys : ~IsMetaParameterPath(key)
        /\ Completed(t, "find_instances") /\ last[t].res.kind = "ok"
           => \A found_key \in last[t].res.keys : ~IsMetaSegment(InstanceSegment(found_key))

\* find_instances has returned the row of a table whose store keys include
\* a meta-parameter next to the rows
C16_Witness ==
    \E t \in Threads :
        /\ Completed(t, "find_instances")
        /\ last[t].path = TestTable
        /\ TestMeta \in DOMAIN db
        /\ last[t].res = OkKeys({TestRow1})

---------------------------------------------------------------------------
(* insert and delete: the rejected calls                                   *)

\* the generic form of a table path: every bracketed segment and every
\* numeric segment replaced by {i}
TableForm(path) ==
    LET parts == Split(path) IN
    Join([k \in 1..Len(parts) |->
            IF parts[k] \in { <<b>> : b \in Brackets } \/ IsNumericSegment(parts[k])
            THEN <<"{i}">> ELSE parts[k]])

\* this step is thread t calling op on path: the call returns at once, or
\* goes on with its locals set
Called(t, op, path) ==
    /\ pc[t] = "idle"
    /\ ncalls' # ncalls
    /\ \/ pc'[t] = "idle" /\ last'[t].op = op /\ last'[t].path = path
       \/ pc'[t] # "idle" /\ loc'[t].op = op /\ loc'[t].path = path

\* find_impl_objects(path, true) returns a non-empty list
Declared(path) ==
    LET found == find_impl_objects(dm, path, TRUE) IN
    found.kind = "ok" /\ found.keys # {}

\* find_objects(path) returns a non-empty list
Instantiated(path) ==
    LET found == find_objects(db, dm, path) IN
    found.kind = "ok" /\ found.keys # {}

\* C17: insert(partialPath) raises NoSuchPath, without changing the store,
\* any counter or the persisted file, whenever find_impl_objects(partialPath,
\* true) is empty or the generic form of partialPath is not in the
\* supported-insert-path set.
C17_InsertRejected ==
    [][\A t \in Threads : \A path \in TableInsertPaths :
          (/\ Called(t, "insert", path)
           /\ ~Declared(path) \/ TableForm(path) \notin supported_insert_path_list)
          => /\ pc'[t] = "idle"
             /\ last'[t].res = NoSuchPath
             /\ db' = db
             /\ file' = file]_vars

\* insert on a table the schema declares and the supported-insert list does
\* not name has raised NoSuchPath on a store with rows
C17_Witness ==
    \E t \in Threads :
        /\ Completed(t, "insert")
        /\ last[t].path = OtherTable
        /\ Declared(OtherTable)
        /\ last[t].res = NoSuchPath
        /\ db # EmptyMap

\* the last call of t was an insert or a delete on a path that is valid in
\* the schema and the store (declared for insert, with rows for delete) and
\* whose generic form is not in the supported list of the operation
RejectedUnlisted(t) ==
    \/ /\ Completed(t, "insert")
       /\ Declared(last[t].path)
       /\ TableForm(last[t].path) \notin supported_insert_path_list
    \/ /\ Completed(t, "delete")
       /\ last[t].res.kind # "ok"
       /\ Instantiated(last[t].path)
       /\ TableForm(last[t].path) \notin supported_delete_path_list

\* C18 as stated: insert or delete on a table path that is schema-valid but
\* not in the supported-insert/supported-delete set fails with an
\* unsupported-operation error, a kind distinct from NoSuchPath.
C18_UnsupportedDistinct ==
    \A t \in Threads :
        RejectedUnlisted(t) => last[t].res.kind \notin {"ok", NoSuchPath.kind}

\* C18, amended: insert or delete on a table path that is schema-valid but
\* not in the supported-insert/supported-delete set fails with NoSuchPath,
\* the error of an unimplemented path.
C18_UnsupportedIsNoSuchPath ==
    \A t \in Threads :
        RejectedUnlisted(t) => last[t].res = NoSuchPath

\* delete on a row of the Test table, which has keys in the store and whose
\* generic form "Device.Test.{i}." is not in the supported-delete list, has
\* failed
C18_Witness ==
    \E t \in Threads :
        /\ RejectedUnlisted(t)
        /\ last[t].op = "delete"
        /\ last[t].path = TestRow1
        /\ TestAlias1 \in DOMAIN db

---------------------------------------------------------------------------
(* delete                                                                  *)

\* the string key starts with the string prefix
HasPrefix(prefix, key) ==
    Len(key) >= Len(prefix) /\ SubSeq(key, 1, Len(prefix)) = prefix

\* C19: after delete(partialPath) succeeds, no key of the store has
\* partialPath as a prefix, so find_params(partialPath) returns no key.
C19_RowRemoved ==
    \A t \in Threads :
        Completed(t, "delete") /\ last[t].res.kind = "ok"
        => /\ \A key \in DOMAIN db : ~HasPrefix(last[t].path, key)
           /\ find_params(db, dm, last[t].path).keys = {}

\* C20: delete(partialPath) with find_objects(partialPath) non-empty and a
\* generic form that is in the supported-delete set but has no handler (such
\* as "Device.Test.") raises the not-implemented signal, which is not
\* NoSuchPath, and leaves the store and the persisted file unchanged.
C20_DeleteNotImplemented ==
    [][\A t \in Threads : \A path \in TableDeletePaths :
          (/\ Called(t, "delete", path)
           /\ Instantiated(path)
           /\ TableForm(path) \in supported_delete_path_list \ {PicRow})
          => /\ pc'[t] = "idle"
             /\ last'[t].res = Raise("NotImplementedError")
             /\ last'[t].res # NoSuchPath
             /\ db' = db
             /\ file' = file]_vars

\* delete("Device.Test.") has raised the not-implemented signal on a store
\* with a row of the table
C20_Witness ==
    \E t \in Threads :
        /\ Completed(t, "delete")
        /\ last[t].path = TestTable
        /\ TestAlias1 \in DOMAIN db
        /\ last[t].res.kind = "NotImplementedError"

---------------------------------------------------------------------------
(* get                                                                     *)

TablePathOf(path) ==
    [i \in 1..Len(path) |-> IF path[i] = "NumberOfEntries" THEN "." ELSE path[i]]

\* C22: get(p) for a store key p whose stored value is the marker
\* __NUM_ENTRIES__ returns the number of distinct instances that
\* find_instances returns for the table path obtained by replacing
\* "NumberOfEntries" in p with "."; when find_instances raises, so does get.
C22_NumEntries ==
    \A t \in Threads :
        /\ Completed(t, "get")
        /\ last[t].path \in DOMAIN db
        /\ db[last[t].path] = NUM_ENTRIES
        => LET instances == find_instances(db, dm, TablePathOf(last[t].path))
           IN  IF instances.kind = "ok"
               THEN last[t].res = Ok(IntV(Cardinality(instances.keys)))
               ELSE last[t].res = instances

\* get("Device.TestNumberOfEntries") has counted the two rows of the table
C22_Witness ==
    \E t \in Threads :
        /\ Completed(t, "get")
        /\ last[t].path = TestCounter
        /\ TestCounter \in DOMAIN db
        /\ db[TestCounter] = NUM_ENTRIES
        /\ find_instances(db, dm, TestTable) = OkKeys({TestRow1, <<"Device", ".", "Test", ".", "2", ".">>})
        /\ last[t].res = Ok(IntV(2))

---------------------------------------------------------------------------
(* insert: the number returned and the frame                               *)

\* the store d and the store e hold the same keys and values except at key
SameExceptAt(d, e, key) ==
    \A k \in (DOMAIN d \cup DOMAIN e) \ {key} :
        k \in DOMAIN d /\ k \in DOMAIN e /\ d[k] = e[k]

\* one step of thread t's insert call, with one caller: the store of the
\* steps before line 352 is the store before the call
InsertContract(t) ==
    /\ (pc[t] = "ins_get" /\ pc'[t] = "ins_update")
       => \E r \in GetOutcomes(db, dm, loc[t].counter) :
             IF r.kind = "ok"
             THEN r.val.t = "int" /\ loc'[t].num = r.val.n + 1
             ELSE loc[t].counter \notin DOMAIN db /\ loc'[t].num = 1
    /\ loc[t].op = "insert"
       => /\ SameExceptAt(db, db', loc[t].counter)
          /\ (pc[t] # "ins_get" /\ loc'[t].op = "insert") => loc'[t].num = loc[t].num
    /\ (pc[t] = "ins_unlock" /\ pc'[t] = "idle")
       => /\ last'[t].res = Ok(IntV(loc[t].num))
          /\ loc[t].counter \in DOMAIN db'
          /\ db'[loc[t].counter] = IntV(loc[t].num)
          /\ file'.ok
          /\ loc[t].counter \in DOMAIN file'.data
          /\ file'.data[loc[t].counter] = IntV(loc[t].num)

\* C23: a successful insert(partialPath) returns c + 1, where c is what get
\* reads from the table's counter before the call, or 0 when the counter is
\* absent; afterwards the stored and the persisted counter equal the returned
\* number, and no other store key is added, changed or removed.
C23_InsertContract == [][\A t \in SeqThreads : InsertContract(t)]_vars

\* insert("Device.Test.") on a store whose counter held 1 has returned 2, and
\* the store and the file hold 2
C23_Witness ==
    \E t \in Threads :
        /\ Completed(t, "insert")
        /\ last[t].path = TestTable
        /\ last[t].res = Ok(IntV(2))
        /\ TestCounter \in DOMAIN db /\ db[TestCounter] = IntV(2)
        /\ file.ok /\ TestCounter \in DOMAIN file.data /\ file.data[TestCounter] = IntV(2)
        /\ TestAlias1 \in DOMAIN db /\ db[TestAlias1] = StrV("x")
        /\ Len(issued) = 1

---------------------------------------------------------------------------
(* _generic_dm_path                                                        *)

\* C24: for every path, _generic_dm_path returns the path with every instance
\* segment (purely numeric or "*") replaced by {i} and all other segments
\* unchanged, including when two instance segments are adjacent; checked on
\* the paths handed to is_param_writable, which looks the result up in the
\* schema.
C24_GenericPath ==
    \A t \in Threads :
        Completed(t, "is_param_writable")
        => _generic_dm_path(last[t].path) = GenericForm(last[t].path)

---------------------------------------------------------------------------
(* The read operations change nothing                                      *)

ReadOps ==
    { "get", "get_obj", "find_params", "find_instances", "find_objects",
      "find_impl_objects", "is_param_writable" }

\* thread t completes a read call in this step
ReadCall(t) ==
    /\ last'[t] # last[t]
    /\ last'[t].op \in ReadOps
    /\ pc[t] = "idle" /\ pc'[t] = "idle"

\* C25: get, get_obj, find_params, find_instances, find_objects,
\* find_impl_objects and is_param_writable leave the store, the schema and the
\* persisted file unchanged, whether they return a result or raise.
C25_ReadFrame ==
    [][\A t \in Threads : ReadCall(t) => db' = db /\ dm' = dm /\ file' = file]_vars

\* a get_obj on a store with a __CURR_TIME__ marker and no time zone has
\* raised, after other read calls, and the store is the one the file gave
C25_Witness ==
    \E t \in Threads :
        /\ Completed(t, "get_obj")
        /\ last[t].res = Raise("KeyError")
        /\ ncalls >= 3
        /\ db = InitialStore
        /\ InfoTime \in DOMAIN db
        /\ file = file0

---------------------------------------------------------------------------
(* update and path expressions                                             *)

\* no segment of the key is a "*" wildcard or a "{i}" placeholder
ConcreteKey(key) ==
    \A k \in 1..Len(Split(key)) : Split(key)[k] \notin {<<"*">>, <<"{i}">>}

\* C26: after any sequence of update calls starting from a store with only
\* concrete keys, no store key contains a "*" wildcard segment or a "{i}"
\* placeholder segment.
C26_ConcreteKeys ==
    (\A key \in DOMAIN InitialStore : ConcreteKey(key))
    => \A key \in DOMAIN db : ConcreteKey(key)

---------------------------------------------------------------------------
(* insert and the rows of the table                                        *)

\* str(n) for the numbers of the model
Numeral(n) ==
    IF n < 10 THEN <<ToString(n)>> ELSE <<ToString(n \div 10), ToString(n % 10)>>

\* C27: the instance number n returned by a successful insert(t) is never the
\* number of an instance already present in the store: t + n + "." is not in
\* find_instances(t), for every store reachable by update, insert, delete and
\* reset.  insert changes the table's counter alone, which is not under t, so
\* find_instances(t) when insert returns is find_instances(t) before the call.
C27_FreshInstance ==
    \A t \in Threads :
        (Completed(t, "insert") /\ last[t].res.kind = "ok")
        => LET instances == find_instances(db, dm, last[t].path) IN
           instances.kind = "ok"
           => (last[t].path \o Numeral(last[t].res.val.n) \o <<".">>) \notin instances.keys

---------------------------------------------------------------------------
(* insert and concurrent reset                                             *)

\* C28: under every interleaving of insert calls with concurrent reset calls,
\* no instance number is returned twice for the same table.
C28_DistinctUnderReset ==
    \A i, j \in 1..Len(issued) :
        (i < j /\ issued[i].path = issued[j].path) => issued[i].num # issued[j].num

---------------------------------------------------------------------------
(* Termination and the locks                                               *)

\* thread t is inside the allocation section of insert, lines 348-353
InAllocationSection(t) ==
    pc[t] \in {"ins_get", "ins_update", "save_lock", "save_open", "save_dump", "ins_unlock"}
        /\ loc[t].op = "insert"

\* each lock is held by a thread that is inside the section it guards
LocksHeldInside ==
    /\ \A t \in Threads : new_inst_num_lock = t <=> InAllocationSection(t)
    /\ \A t \in Threads : file_write_lock = t <=> pc[t] \in {"save_open", "save_dump"}

\* C29: under fair scheduling every insert and delete call eventually returns
\* or raises, so the two locks never deadlock, and a call that has returned or
\* raised, inside the allocation section included, holds no lock, so that later
\* inserts proceed.
C29_CallsTerminate ==
    /\ [] LocksHeldInside
    /\ \A t \in Threads : (pc[t] # "idle") ~> (pc[t] = "idle")

\* an insert has raised NoSuchPath inside the allocation section (its counter
\* is not in the schema), and the other thread's insert is inside the section
C29_Witness ==
    \E t, u \in Threads :
        /\ t # u
        /\ Completed(t, "insert")
        /\ last[t].path = TestTable
        /\ insert_allowed(dm, TestTable)
        /\ last[t].res = NoSuchPath
        /\ new_inst_num_lock = u
        /\ pc[u] = "ins_get"

---------------------------------------------------------------------------
(* delete: the errors                                                      *)

\* C30: every failing delete(partialPath) fails with NoSuchPath or the
\* not-implemented signal and leaves the store unchanged; in particular, when
\* rows exist under a supported partialPath but the key partialPath + "URL" is
\* absent, delete fails with no other kind of error.
C30_DeleteErrors ==
    \A t \in Threads :
        (Completed(t, "delete") /\ last[t].res.kind # "ok")
        => /\ last[t].res.kind \in {"NoSuchPathError", "NotImplementedError"}
           /\ ~ last[t].changed

====
